---- MODULE Spec2Model ----
(***************************************************************************)
(* Model of src/slcsp_calculator.py: the SLCSPCalculator object, its       *)
(* loaded relations and the stages of calculate_slcsp, followed by         *)
(* print_slcsp.  Data frames are records [cols, rows]: cols is the set of  *)
(* column names, rows the sequence of rows (functions from column name to  *)
(* cell).  In a column that can miss values (second_lowest_rate, the rate  *)
(* of the target relation) a missing cell (NaN / None) is the empty tuple  *)
(* and a present cell the one-element tuple of its value.  Rates are       *)
(* amounts in cents.  The text of a ZIP code in a CSV file is a sequence   *)
(* of digits.                                                              *)
(***************************************************************************)
EXTENDS Integers, Sequences, FiniteSets, TLC

VARIABLES plans_file, zips_file, slcsp_file,
          plans_data, zipcode_data, slcsp_data,
          silver_plans, merged_data, second_lowest_rates,
          pc, error, runs, first_rates, output

vars == <<plans_file, zips_file, slcsp_file, plans_data, zipcode_data, slcsp_data,
          silver_plans, merged_data, second_lowest_rates, pc, error, runs, first_rates, output>>

(***************************************************************************)
(* Bounds of the explored inputs.                                          *)
(***************************************************************************)
MaxPlans == 3
MaxZips == 2
MaxTargets == 2
MaxRuns == 2

(***************************************************************************)
(* Cells, frames and sequences.                                            *)
(***************************************************************************)
NA == << >>

NoFrame == [cols |-> {}, rows |-> << >>]

NoError == [stage |-> "", kind |-> "", row |-> 0]

Range(s) == {s[i] : i \in 1..Len(s)}

RECURSIVE Flatten(_)
Flatten(ss) == IF ss = << >> THEN << >> ELSE Head(ss) \o Flatten(Tail(ss))

BoundedSeq(S, n) == UNION {[1..k -> S] : k \in 0..n}

(***************************************************************************)
(* pd.read_csv: a column whose cells are all digit strings is parsed as    *)
(* int64; DataFrame.to_csv writes an int64 in decimal, without padding.    *)
(***************************************************************************)
RECURSIVE ParseInt(_)
ParseInt(text) ==
    IF text = << >> THEN 0
    ELSE 10 * ParseInt(SubSeq(text, 1, Len(text) - 1)) + text[Len(text)]

RECURSIVE IntToText(_)
IntToText(n) == IF n < 10 THEN <<n>> ELSE Append(IntToText(n \div 10), n % 10)

ReadPlans(file) ==
    [cols |-> {"state", "rate_area", "metal_level", "rate"}, rows |-> file]

ReadZips(file) ==
    [cols |-> {"zipcode", "state", "rate_area"},
     rows |-> [i \in 1..Len(file) |->
                 [zipcode |-> ParseInt(file[i].zipcode), state |-> file[i].state,
                  rate_area |-> file[i].rate_area]]]

ReadSlcsp(file) ==
    [cols |-> {"zipcode", "rate"},
     rows |-> [i \in 1..Len(file) |-> [zipcode |-> ParseInt(file[i]), rate |-> NA]]]

(***************************************************************************)
(* f"{rate:.2f}" on an amount with at most two decimals.                   *)
(***************************************************************************)
Format2f(cents) ==
    ToString(cents \div 100) \o "." \o ToString((cents % 100) \div 10)
                             \o ToString(cents % 10)

(***************************************************************************)
(* pd.merge(left, right, on=keys, how=...): the rows of left in order,     *)
(* each joined with the rows of right of equal key, in right's order; a    *)
(* left row without a match is dropped (inner) or kept with missing right  *)
(* cells (left).  A column the two frames share outside the keys is        *)
(* renamed with the suffixes _x and _y.  A key that is not a column of     *)
(* both frames raises KeyError.                                            *)
(***************************************************************************)
LeftName(left, right, keys, c) ==
    IF c \in (left.cols \cap right.cols) \ keys THEN c \o "_x" ELSE c

RightName(left, right, keys, c) ==
    IF c \in (left.cols \cap right.cols) \ keys THEN c \o "_y" ELSE c

MergedCols(left, right, keys) ==
    {LeftName(left, right, keys, c) : c \in left.cols}
        \cup {RightName(left, right, keys, c) : c \in right.cols \ keys}

JoinRow(left, right, keys, l, r, matched) ==
    [c \in MergedCols(left, right, keys) |->
        IF \E lc \in left.cols : LeftName(left, right, keys, lc) = c
        THEN l[CHOOSE lc \in left.cols : LeftName(left, right, keys, lc) = c]
        ELSE IF matched
             THEN r[CHOOSE rc \in right.cols \ keys : RightName(left, right, keys, rc) = c]
             ELSE NA]

MergeRows(left, right, keys, how) ==
    Flatten([i \in 1..Len(left.rows) |->
        LET l == left.rows[i]
            m == SelectSeq(right.rows, LAMBDA r : \A k \in keys : r[k] = l[k])
        IN  IF m = << >>
            THEN IF how = "left" THEN <<JoinRow(left, right, keys, l, l, FALSE)>>
                 ELSE << >>
            ELSE [j \in 1..Len(m) |-> JoinRow(left, right, keys, l, m[j], TRUE)]])

\* pd_merge without the suffixes: a shared column keeps its name and takes
\* the cells of right.
pd_merge_overwrite(left, right, keys, how) ==
    IF ~(keys \subseteq left.cols /\ keys \subseteq right.cols)
    THEN [ok |-> FALSE, kind |-> "KeyError", frame |-> NoFrame]
    ELSE [ok |-> TRUE, kind |-> "",
          frame |-> [cols |-> left.cols \cup right.cols,
                     rows |-> Flatten([i \in 1..Len(left.rows) |->
                        LET l == left.rows[i]
                            m == SelectSeq(right.rows, LAMBDA r : \A k \in keys : r[k] = l[k])
                        IN  IF m = << >>
                            THEN IF how = "left"
                                 THEN <<[c \in left.cols \cup right.cols |->
                                           IF c \in right.cols \ keys THEN NA ELSE l[c]]>>
                                 ELSE << >>
                            ELSE [j \in 1..Len(m) |->
                                    [c \in left.cols \cup right.cols |->
                                        IF c \in right.cols \ keys THEN m[j][c] ELSE l[c]]]])]]

pd_merge(left, right, keys, how) ==
    IF ~(keys \subseteq left.cols /\ keys \subseteq right.cols)
    THEN [ok |-> FALSE, kind |-> "KeyError", frame |-> NoFrame]
    ELSE IF Cardinality(MergedCols(left, right, keys))
              < Cardinality(left.cols) + Cardinality(right.cols \ keys)
    THEN [ok |-> FALSE, kind |-> "MergeError", frame |-> NoFrame]
    ELSE [ok |-> TRUE, kind |-> "",
          frame |-> [cols |-> MergedCols(left, right, keys),
                     rows |-> MergeRows(left, right, keys, how)]]

RateAreaKey == {"state", "rate_area"}

(***************************************************************************)
(* get_second_lowest_rate: the second of the two smallest distinct rates   *)
(* of a group, None when the group has fewer than two distinct rates.      *)
(***************************************************************************)
RECURSIVE drop_duplicates(_)
drop_duplicates(s) ==
    IF s = << >> THEN << >>
    ELSE LET init == drop_duplicates(SubSeq(s, 1, Len(s) - 1))
         IN  IF s[Len(s)] \in Range(init) THEN init ELSE Append(init, s[Len(s)])

RECURSIVE SortAscending(_)
SortAscending(s) ==
    IF s = << >> THEN << >>
    ELSE LET i == CHOOSE i \in 1..Len(s) :
                    /\ \A j \in 1..Len(s) : s[i] <= s[j]
                    /\ \A j \in 1..(i - 1) : s[j] # s[i]
         IN  <<s[i]>> \o SortAscending(SubSeq(s, 1, i - 1) \o SubSeq(s, i + 1, Len(s)))

nsmallest(s, n) ==
    LET sorted == SortAscending(s)
    IN  SubSeq(sorted, 1, IF Len(sorted) < n THEN Len(sorted) ELSE n)

\* get_second_lowest_rate without drop_duplicates: the second smallest plan,
\* not the second smallest distinct rate.
get_second_lowest_rate_of_plans(rates) ==
    IF Len(rates) > 1 THEN <<nsmallest(rates, 2)[2]>> ELSE NA

get_second_lowest_rate(rates) ==
    LET unique_rates == drop_duplicates(rates)
    IN  IF Len(unique_rates) > 1 THEN <<nsmallest(unique_rates, 2)[2]>> ELSE NA

(***************************************************************************)
(* groupby(['state', 'rate_area']).apply(...).reset_index().rename(...):   *)
(* one row per key of the frame, keys in ascending order.  pandas returns  *)
(* an empty frame without the key columns when every group yields None;    *)
(* for a frame without rows it returns, depending on its version, that     *)
(* same empty frame or a frame whose columns already hold the keys, on     *)
(* which reset_index raises ValueError.                                    *)
(***************************************************************************)
StateOrder == <<"AA", "BB">>

StateRank(s) == CHOOSE i \in 1..Len(StateOrder) : StateOrder[i] = s

KeyLeq(k1, k2) ==
    \/ StateRank(k1[1]) < StateRank(k2[1])
    \/ k1[1] = k2[1] /\ k1[2] <= k2[2]

RECURSIVE SortKeys(_)
SortKeys(S) ==
    IF S = {} THEN << >>
    ELSE LET m == CHOOSE k \in S : \A o \in S : KeyLeq(k, o)
         IN  <<m>> \o SortKeys(S \ {m})

GroupKeys(frame) == {<<r["state"], r["rate_area"]>> : r \in Range(frame.rows)}

GroupRates(frame, k) ==
    LET g == SelectSeq(frame.rows, LAMBDA r : <<r["state"], r["rate_area"]>> = k)
    IN  [i \in 1..Len(g) |-> g[i]["rate"]]

GroupResult(frame, k) == get_second_lowest_rate(GroupRates(frame, k))

IndexOnlyFrame == [cols |-> {"index"}, rows |-> << >>]

AggregateOutcomes(frame) ==
    IF ~(RateAreaKey \cup {"rate"} \subseteq frame.cols)
    THEN {[ok |-> FALSE, kind |-> "KeyError", frame |-> NoFrame]}
    ELSE IF frame.rows = << >>
    THEN {[ok |-> TRUE, kind |-> "", frame |-> IndexOnlyFrame],
          [ok |-> FALSE, kind |-> "ValueError", frame |-> NoFrame]}
    ELSE IF \A k \in GroupKeys(frame) : GroupResult(frame, k) = NA
    THEN {[ok |-> TRUE, kind |-> "", frame |-> IndexOnlyFrame]}
    ELSE LET ks == SortKeys(GroupKeys(frame))
         IN  {[ok |-> TRUE, kind |-> "",
               frame |-> [cols |-> RateAreaKey \cup {"second_lowest_rate"},
                          rows |-> [i \in 1..Len(ks) |->
                                      [state |-> ks[i][1], rate_area |-> ks[i][2],
                                       second_lowest_rate |-> GroupResult(frame, ks[i])]]]]}

(***************************************************************************)
(* get_rate: '' for a ZIP code whose rows carry more than one rate_area    *)
(* number or a missing second_lowest_rate, else the rate of its first row. *)
(***************************************************************************)
Blank == [kind |-> "blank", v |-> 0]

Raise(k) == [kind |-> k, v |-> 0]

get_rate(zd, zipcode) ==
    IF ~({"zipcode", "rate_area"} \subseteq zd.cols) THEN Raise("KeyError")
    ELSE LET sel == SelectSeq(zd.rows, LAMBDA r : r["zipcode"] = zipcode)
         IN  IF Cardinality({r["rate_area"] : r \in Range(sel)}) > 1 THEN Blank
             ELSE IF "second_lowest_rate" \notin zd.cols THEN Raise("KeyError")
             ELSE IF \E r \in Range(sel) : r["second_lowest_rate"] = NA THEN Blank
             ELSE IF sel = << >> THEN Raise("IndexError")
             ELSE [kind |-> "rate", v |-> sel[1]["second_lowest_rate"][1]]

RenderRate(res) == IF res.kind = "blank" THEN "" ELSE Format2f(res.v)

(***************************************************************************)
(* Inputs.  The explored files are of two families: every plan catalog of  *)
(* at most MaxPlans rows over two rate areas, read with a fixed ZIP        *)
(* mapping; and a fixed catalog read with every mapping of at most MaxZips *)
(* rows and every target list of at most MaxTargets rows.  ZIP codes are   *)
(* written with a fixed width, leading zeros included.                     *)
(***************************************************************************)
Plan(s, a, m, r) == [state |-> s, rate_area |-> a, metal_level |-> m, rate |-> r]

Zip(z, s, a) == [zipcode |-> z, state |-> s, rate_area |-> a]

Rates == {9000, 10000, 15000}

MetalLevels == {"Silver", "Gold"}

CatalogRows == {Plan("AA", a, m, r) : a \in {1, 2}, m \in MetalLevels, r \in Rates}

ZipTexts == {<<0, 1>>, <<1, 0>>}

MappingRows == {Zip(z, k[1], k[2]) : z \in ZipTexts, k \in {<<"AA", 1>>, <<"AA", 2>>, <<"BB", 1>>}}

FixedMappings ==
    {<<Zip(<<0, 1>>, "AA", 1), Zip(<<0, 1>>, "AA", 1), Zip(<<1, 0>>, "AA", 2)>>}

ScenarioPlans ==
    <<Plan("AA", 1, "Silver", 10000), Plan("AA", 1, "Silver", 15000),
      Plan("AA", 1, "Silver", 15000), Plan("AA", 2, "Silver", 9000)>>

ScenarioZips ==
    <<Zip(<<0, 0, 0, 0, 1>>, "AA", 1), Zip(<<0, 0, 0, 0, 2>>, "AA", 2),
      Zip(<<0, 0, 0, 0, 3>>, "AA", 1), Zip(<<0, 0, 0, 0, 3>>, "AA", 2)>>

ScenarioTargets == <<<<0, 0, 0, 0, 1>>, <<0, 0, 0, 0, 2>>, <<0, 0, 0, 0, 3>>>>

FixedCatalogs ==
    {ScenarioPlans,
     <<Plan("AA", 1, "Silver", 10000), Plan("AA", 1, "Silver", 15000),
       Plan("BB", 1, "Silver", 9000), Plan("BB", 1, "Silver", 10000),
       Plan("AA", 2, "Gold", 9000)>>,
     <<Plan("AA", 1, "Silver", 10000), Plan("BB", 1, "Silver", 9000),
       Plan("BB", 1, "Gold", 15000)>>,
     << >>}

Inputs ==
    {<<p, z, <<<<0, 1>>, <<1, 0>>>> >> : p \in BoundedSeq(CatalogRows, MaxPlans), z \in FixedMappings}
    \cup {<<p, z, t>> : p \in FixedCatalogs, z \in BoundedSeq(MappingRows, MaxZips),
                        t \in BoundedSeq(ZipTexts, MaxTargets)}
    \cup {<<ScenarioPlans, ScenarioZips, ScenarioTargets>>}

(***************************************************************************)
(* __init__: the three files are read.                                     *)
(***************************************************************************)
Init ==
    /\ \E in \in Inputs :
          /\ plans_file = in[1]
          /\ zips_file = in[2]
          /\ slcsp_file = in[3]
    /\ plans_data = ReadPlans(plans_file)
    /\ zipcode_data = ReadZips(zips_file)
    /\ slcsp_data = ReadSlcsp(slcsp_file)
    /\ silver_plans = NoFrame
    /\ merged_data = NoFrame
    /\ second_lowest_rates = NoFrame
    /\ pc = "loaded"
    /\ error = NoError
    /\ runs = 0
    /\ first_rates = << >>
    /\ output = << >>

Fail(stage, kind, row) ==
    /\ pc' = "failed"
    /\ error' = [stage |-> stage, kind |-> kind, row |-> row]

(***************************************************************************)
(* calculate_slcsp, stage by stage.  A call starts with                    *)
(* filter_silver_plans, on the fresh object or after an earlier call has   *)
(* returned.                                                               *)
(***************************************************************************)
filter_silver_plans ==
    /\ \/ pc = "loaded"
       \/ pc \in {"determined", "printed"} /\ runs < MaxRuns
    /\ runs' = runs + 1
    /\ silver_plans' = [cols |-> plans_data.cols,
                        rows |-> SelectSeq(plans_data.rows,
                                           LAMBDA r : r["metal_level"] = "Silver")]
    /\ pc' = "filtered"
    /\ UNCHANGED <<plans_file, zips_file, slcsp_file, plans_data, zipcode_data,
                   slcsp_data, merged_data, second_lowest_rates, error,
                   first_rates, output>>

merge_data ==
    /\ pc = "filtered"
    /\ LET m == pd_merge(zipcode_data, silver_plans, RateAreaKey, "inner")
       IN  IF m.ok
           THEN /\ merged_data' = m.frame
                /\ pc' = "merged"
                /\ UNCHANGED error
           ELSE /\ Fail("merge_data", m.kind, 0)
                /\ UNCHANGED merged_data
    /\ UNCHANGED <<plans_file, zips_file, slcsp_file, plans_data, zipcode_data,
                   slcsp_data, silver_plans, second_lowest_rates, runs,
                   first_rates, output>>

calculate_second_lowest_rates ==
    /\ pc = "merged"
    /\ \E a \in AggregateOutcomes(merged_data) :
          IF a.ok
          THEN /\ second_lowest_rates' = a.frame
               /\ pc' = "aggregated"
               /\ UNCHANGED error
          ELSE /\ Fail("calculate_second_lowest_rates", a.kind, 0)
               /\ UNCHANGED second_lowest_rates
    /\ UNCHANGED <<plans_file, zips_file, slcsp_file, plans_data, zipcode_data,
                   slcsp_data, silver_plans, merged_data, runs, first_rates, output>>

merge_zip_and_rate ==
    /\ pc = "aggregated"
    /\ LET m == pd_merge(zipcode_data, second_lowest_rates, RateAreaKey, "left")
       IN  IF m.ok
           THEN /\ zipcode_data' = m.frame
                /\ pc' = "zip_merged"
                /\ UNCHANGED error
           ELSE /\ Fail("merge_zip_and_rate", m.kind, 0)
                /\ UNCHANGED zipcode_data
    /\ UNCHANGED <<plans_file, zips_file, slcsp_file, plans_data, slcsp_data,
                   silver_plans, merged_data, second_lowest_rates, runs,
                   first_rates, output>>

Resolved == [i \in 1..Len(slcsp_data.rows) |->
               get_rate(zipcode_data, slcsp_data.rows[i]["zipcode"])]

Raising == {i \in 1..Len(slcsp_data.rows) : Resolved[i].kind \notin {"blank", "rate"}}

determine_rate ==
    /\ pc = "zip_merged"
    /\ IF Raising = {}
       THEN /\ slcsp_data' =
                 [cols |-> slcsp_data.cols \cup {"rate"},
                  rows |-> [i \in 1..Len(slcsp_data.rows) |->
                              [slcsp_data.rows[i] EXCEPT !["rate"] = <<RenderRate(Resolved[i])>>]]]
            /\ first_rates' = IF runs = 1
                              THEN [i \in 1..Len(slcsp_data.rows) |-> RenderRate(Resolved[i])]
                              ELSE first_rates
            /\ pc' = "determined"
            /\ UNCHANGED error
       ELSE LET i == CHOOSE i \in Raising : \A j \in Raising : i <= j
            IN  /\ Fail("determine_rate", Resolved[i].kind, i)
                /\ UNCHANGED <<slcsp_data, first_rates>>
    /\ UNCHANGED <<plans_file, zips_file, slcsp_file, plans_data, zipcode_data,
                   silver_plans, merged_data, second_lowest_rates, runs, output>>

(***************************************************************************)
(* print_slcsp: to_csv of the target relation, a missing rate as an empty  *)
(* field.                                                                  *)
(***************************************************************************)
\* to_csv after dropping the rows that repeat an earlier zipcode.
to_csv_distinct(frame) ==
    LET keep == SelectSeq([i \in 1..Len(frame.rows) |-> i],
                          LAMBDA i : \A j \in 1..(i - 1) :
                                        frame.rows[j]["zipcode"] # frame.rows[i]["zipcode"])
    IN  [n \in 1..Len(keep) |->
            [zipcode |-> IntToText(frame.rows[keep[n]]["zipcode"]),
             rate |-> IF frame.rows[keep[n]]["rate"] = NA THEN ""
                      ELSE frame.rows[keep[n]]["rate"][1]]]

to_csv(frame) ==
    [i \in 1..Len(frame.rows) |->
        [zipcode |-> IntToText(frame.rows[i]["zipcode"]),
         rate |-> IF frame.rows[i]["rate"] = NA THEN "" ELSE frame.rows[i]["rate"][1]]]

print_slcsp ==
    /\ pc = "determined"
    /\ output' = to_csv(slcsp_data)
    /\ pc' = "printed"
    /\ UNCHANGED <<plans_file, zips_file, slcsp_file, plans_data, zipcode_data,
                   slcsp_data, silver_plans, merged_data, second_lowest_rates,
                   error, runs, first_rates>>

Next ==
    \/ filter_silver_plans
    \/ merge_data
    \/ calculate_second_lowest_rates
    \/ merge_zip_and_rate
    \/ determine_rate
    \/ print_slcsp

Spec == Init /\ [][Next]_vars

(***************************************************************************)
(* The input files as the specification reads them: ZIP codes as texts,    *)
(* rate areas as (state, rate_area) pairs, Silver rates as sets.           *)
(***************************************************************************)
Targets == 1..Len(slcsp_file)

ZipEntries(text) == {r \in Range(zips_file) : r.zipcode = text}

ZipKeys(text) == {<<r.state, r.rate_area>> : r \in ZipEntries(text)}

MappedKeys == {<<r.state, r.rate_area>> : r \in Range(zips_file)}

SilverRates(k) ==
    {r.rate : r \in {q \in Range(plans_file) :
                        q.metal_level = "Silver" /\ <<q.state, q.rate_area>> = k}}

SecondSmallest(S) == CHOOSE x \in S : Cardinality({y \in S : y < x}) = 1

Aggregated == pc \in {"aggregated", "zip_merged", "determined", "printed"}

Returned == pc \in {"determined", "printed"}

Ended == pc \in {"determined", "printed", "failed"}

AggregateRows(k) ==
    {i \in 1..Len(second_lowest_rates.rows) :
        <<second_lowest_rates.rows[i]["state"], second_lowest_rates.rows[i]["rate_area"]>> = k}

RateOf(i) == slcsp_data.rows[i]["rate"]

BlankRate == <<"">>

\* C1: a target ZIP code with two or more distinct (state, rate_area) pairs in
\* the mapping resolves to blank, also when the pairs share the rate_area number
\* and differ in state only.
C1_AmbiguousZipBlank ==
    Returned =>
        \A i \in Targets :
            Cardinality(ZipKeys(slcsp_file[i])) >= 2 => RateOf(i) = BlankRate

\* C2: a target ZIP code without any row in the mapping raises no exception and
\* resolves to blank.
C2_MissingZipBlank ==
    \A i \in Targets :
        ZipEntries(slcsp_file[i]) = {} =>
            /\ ~(pc = "failed" /\ error.stage = "determine_rate" /\ error.row = i)
            /\ Returned => RateOf(i) = BlankRate

\* C3: for every group of the joined relation with two or more distinct Silver
\* rates, calculate_second_lowest_rates yields one row whose rate is the second
\* smallest of the set of distinct Silver rates of the group, whatever the order
\* of the plan rows, the number of plans per rate, the number of ZIP rows of the
\* group and the plans of other metal levels.
C3_SecondSmallestDistinct ==
    Aggregated =>
        \A k \in MappedKeys :
            Cardinality(SilverRates(k)) >= 2 =>
                /\ Cardinality(AggregateRows(k)) = 1
                /\ \A i \in AggregateRows(k) :
                      second_lowest_rates.rows[i]["second_lowest_rate"]
                          = <<SecondSmallest(SilverRates(k))>>

C3_Witness ==
    /\ pc = "aggregated"
    /\ \E k \in MappedKeys :
          /\ Cardinality(SilverRates(k)) >= 2
          /\ \E i, j \in 1..Len(plans_file) :
                /\ i < j
                /\ <<plans_file[i].state, plans_file[i].rate_area>> = k
                /\ <<plans_file[j].state, plans_file[j].rate_area>> = k
                /\ plans_file[i].metal_level = "Silver"
                /\ plans_file[j].metal_level = "Silver"
                /\ plans_file[i].rate = plans_file[j].rate
                /\ \A x \in SilverRates(k) : plans_file[i].rate <= x
          /\ \E i, j \in 1..Len(zips_file) :
                i < j /\ zips_file[i] = zips_file[j] /\ <<zips_file[i].state, zips_file[i].rate_area>> = k

\* C4: a group with one distinct Silver rate, or without Silver plans, has no
\* second-lowest rate, and every target ZIP code that maps to such a group only
\* gets a blank rate.
C4_SingleRateUndefined ==
    /\ Aggregated =>
          \A k \in MappedKeys :
              Cardinality(SilverRates(k)) <= 1 =>
                  \A i \in AggregateRows(k) :
                      second_lowest_rates.rows[i]["second_lowest_rate"] = NA
    /\ Ended =>
          \A i \in Targets :
              (\E k \in MappedKeys :
                  /\ ZipKeys(slcsp_file[i]) = {k}
                  /\ Cardinality(SilverRates(k)) <= 1)
              => RateOf(i) = BlankRate

\* C5: a target ZIP code resolves to a rate only if its mapping rows have one
\* distinct (state, rate_area) key with a defined second-lowest rate, and the
\* rate is then the second-lowest rate of that key.
C5_DefinedOnlyIfSingleKey ==
    Returned =>
        \A i \in Targets :
            RateOf(i) # BlankRate =>
                \E k \in MappedKeys :
                    /\ ZipKeys(slcsp_file[i]) = {k}
                    /\ Cardinality(SilverRates(k)) >= 2
                    /\ RateOf(i) = <<Format2f(SecondSmallest(SilverRates(k)))>>

\* C6: once the files are loaded, no stage of calculate_slcsp fails.
C6_PipelineTotal == runs <= 1 => pc # "failed"

C8_ZipTextPreserved ==
    pc = "printed" => \A i \in Targets : output[i].zipcode = slcsp_file[i]

\* C9: the end-to-end scenario prints 00001 with 150.00, 00002 with an empty
\* rate and 00003 with an empty rate, in this order.
C9_Scenario ==
    (/\ plans_file = ScenarioPlans
     /\ zips_file = ScenarioZips
     /\ slcsp_file = ScenarioTargets
     /\ pc = "printed")
    => output = <<[zipcode |-> <<0, 0, 0, 0, 1>>, rate |-> "150.00"],
                  [zipcode |-> <<0, 0, 0, 0, 2>>, rate |-> ""],
                  [zipcode |-> <<0, 0, 0, 0, 3>>, rate |-> ""]>>

LoadedColumns(frame) ==
    [i \in 1..Len(frame.rows) |->
        [c \in {"zipcode", "state", "rate_area"} |-> frame.rows[i][c]]]

Zipcodes(frame) == [i \in 1..Len(frame.rows) |-> frame.rows[i]["zipcode"]]

AreaNumbers(text) == {r.rate_area : r \in ZipEntries(text)}

====
